---- MODULE Spec2Model ----
(***************************************************************************)
(* Model of pyresample/gradient/__init__.py: the chunked, tile-parallel    *)
(* gradient-search resampling layer (GradientSearchResampler.compute,      *)
(* parallel_gradient_search and its helpers).                              *)
(*                                                                         *)
(* Arrays are records [shape, flat]: flat holds the values in C (row-      *)
(* major) order, as numpy and dask do.  A dask array additionally carries  *)
(* chunks, one tuple of chunk extents per axis.  Axis numbers and element  *)
(* indices are 0-based as in the source; TLA+ sequences are 1-based, hence *)
(* the +1 wherever a sequence is indexed.                                  *)
(***************************************************************************)
EXTENDS Integers, Sequences, FiniteSets, TLC

VARIABLES
    scene,      \* what the geo-definitions and pyproj yield (fixed by Init)
    self,       \* the GradientSearchResampler object's fields
    pc,         \* "idle", "graph" (lazy result built, tasks pending), "done"
    call,       \* <<>> or <<the running call's arguments>>
    pgs,        \* <<>> or <<what parallel_gradient_search built>>
    tasks,      \* per surviving tile: <<>> or <<its kernel task's record>>
    result,     \* <<>> or <<the call's outcome>>
    st_in,      \* SpecStack: the chunked array handed to a stacker
    st_out,     \* SpecStack: what the stacker returned
    rd_in,      \* SpecReduce: the kernel results stacked along the tile axis
    rd_out      \* SpecReduce: what the reduction returned

vars == <<scene, self, pc, call, pgs, tasks, result, st_in, st_out, rd_in, rd_out>>

pipeline_vars == <<scene, self, pc, call, pgs, tasks, result>>

(***************************************************************************)
(* Bounds of the model.                                                    *)
(***************************************************************************)
MaxChunks == 3      \* chunk counts per axis range over 1..MaxChunks
MaxTileExtent == 2  \* extent of one chunk along an axis, 1..MaxTileExtent
MaxBands == 2       \* band counts range over 1..MaxBands
MaxRank == 4        \* data ranks range over 1..MaxRank
MaxDst == 2         \* destination grids have 1..MaxDst rows and columns
SrcRows == 4        \* rows of the source grid
SrcCols == 4        \* columns of the source grid
MaxReduceTiles == 3 \* tile results reduced together, 1..MaxReduceTiles


(***************************************************************************)
(* With(v, Op) is Op(v) with v evaluated once: every operator below that   *)
(* reads an array several times takes it through With.                     *)
(***************************************************************************)
With(v, Op(_)) == CHOOSE r \in {Op(x) : x \in {v}} : TRUE

(***************************************************************************)
(* numpy / dask array primitives used by the source.                       *)
(***************************************************************************)
RECURSIVE Prod(_)
Prod(s) == IF Len(s) = 0 THEN 1 ELSE Head(s) * Prod(Tail(s))

Size(a) == Prod(a.shape)

Last(s) == s[Len(s)]

\* Python slices of a shape tuple: shape[:k] (k may be negative) and shape[k:].
PyUpTo(shape, k) ==
    IF k < 0 THEN SubSeq(shape, 1, Len(shape) + k) ELSE SubSeq(shape, 1, k)

PyFrom(shape, k) ==
    SubSeq(shape, (IF k < 0 THEN Len(shape) + k ELSE k) + 1, Len(shape))

\* ndarray.reshape(newshape); one entry of newshape may be -1 and is inferred.
Reshape(a0, newshape) ==
    With(a0, LAMBDA a :
        LET known == Prod([i \in 1..Len(newshape) |->
                            IF newshape[i] = -1 THEN 1 ELSE newshape[i]])
        IN  [shape |-> [i \in 1..Len(newshape) |->
                          IF newshape[i] = -1 THEN Size(a) \div known
                          ELSE newshape[i]],
             flat |-> a.flat])

\* np.take(a, x, axis) for an integer x: the x-th slice along axis, axis dropped.
Take(a0, x, axis) ==
    With(a0, LAMBDA a :
        LET n == a.shape[axis + 1]
            outer == Prod(SubSeq(a.shape, 1, axis))
            inner == Prod(SubSeq(a.shape, axis + 2, Len(a.shape)))
        IN  [shape |-> SubSeq(a.shape, 1, axis)
                         \o SubSeq(a.shape, axis + 2, Len(a.shape)),
             flat |-> [k \in 1..(outer * inner) |->
                         a.flat[((k - 1) \div inner) * n * inner + x * inner
                                + ((k - 1) % inner) + 1]]])

\* np.stack(layers, axis): a new axis at position axis (negative: from the end).
Stack(layers0, axis) ==
    With(layers0, LAMBDA layers :
        LET s == layers[1].shape
            ax == IF axis < 0 THEN axis + Len(s) + 1 ELSE axis
            n == Len(layers)
            outer == Prod(SubSeq(s, 1, ax))
            inner == Prod(SubSeq(s, ax + 1, Len(s)))
        IN  [shape |-> SubSeq(s, 1, ax) \o <<n>> \o SubSeq(s, ax + 1, Len(s)),
             flat |-> [k \in 1..(outer * n * inner) |->
                         layers[(((k - 1) % (n * inner)) \div inner) + 1]
                            .flat[((k - 1) \div (n * inner)) * inner
                                  + ((k - 1) % inner) + 1]]])

\* list.extend over a sequence of lists.
RECURSIVE Concat(_)
Concat(ss0) ==
    With(ss0, LAMBDA ss :
        IF Len(ss) = 0 THEN <<>> ELSE Head(ss) \o Concat(Tail(ss)))

(***************************************************************************)
(* GridSplitter and ChunkStacker.                                          *)
(***************************************************************************)
\* vsplit(arr, n)
vsplit(arr0, n) ==
    With(arr0, LAMBDA arr :
    With(Reshape(arr, <<n, -1>> \o PyFrom(arr.shape, 1)), LAMBDA res :
        [x \in 1..n |-> Take(res, x - 1, 0)]))

\* hsplit(arr, n)
hsplit(arr0, n) ==
    With(arr0, LAMBDA arr :
    With(Reshape(arr, <<arr.shape[1], n, -1>> \o PyFrom(arr.shape, 2)), LAMBDA res :
        [x \in 1..n |-> Take(res, x - 1, 1)]))

\* split(arr, n, axis)
split(arr0, n, axis) ==
    With(arr0, LAMBDA arr :
        LET shape == arr.shape
            ax_shape == shape[IF axis < 0 THEN Len(shape) + axis + 1 ELSE axis + 1]
            rest_idx == IF axis < 0 THEN Len(shape) + axis + 1 ELSE axis + 1
            new_shape == PyUpTo(shape, axis) \o <<n, ax_shape \div n>>
                            \o PyFrom(shape, rest_idx)
        IN  With(Reshape(arr, new_shape), LAMBDA res :
                [x \in 1..n |-> Take(res, x - 1, rest_idx - 1)]))

\* Rows outer, columns inner: the tile order a transposed loop nest would give.
StackRowMajor(array, chunks) ==
    LET h_fac == Len(chunks[2])
        v_fac == Len(chunks[1])
    IN  With(vsplit(array, v_fac), LAMBDA rows :
            Stack(Concat([r \in 1..v_fac |-> hsplit(rows[r], h_fac)]), 2))

\* The body of the loop of reshape_arrays_in_stacked_chunks, for one array.
StackOneArray(array, chunks) ==
    LET h_fac == Len(chunks[2])
        v_fac == Len(chunks[1])
    IN  With(hsplit(array, h_fac), LAMBDA cols :
            Stack(Concat([c \in 1..h_fac |-> vsplit(cols[c], v_fac)]), 2))

\* reshape_arrays_in_stacked_chunks(arrays, chunks)
reshape_arrays_in_stacked_chunks(arrays0, chunks) ==
    With(arrays0, LAMBDA arrays :
        [i \in 1..Len(arrays) |-> StackOneArray(arrays[i], chunks)])

\* reshape_to_stacked_3d(array)
reshape_to_stacked_3d(array0) ==
    With(array0, LAMBDA array :
        LET chunks == array.chunks
            x_fac == Len(chunks[Len(chunks)])
            y_fac == Len(chunks[Len(chunks) - 1])
        IN  With(split(array, x_fac, -1), LAMBDA cols :
                Stack(Concat([c \in 1..x_fac |-> split(cols[c], y_fac, -2)]), -1)))

(***************************************************************************)
(* Floating-point values.  A value is finite (an integer here: every       *)
(* coordinate of the model is an even integer, so the halved central       *)
(* differences of np.gradient stay integers) or not finite; NaN stands for *)
(* every value np.isfinite rejects.                                        *)
(***************************************************************************)
F(v) == [fin |-> TRUE, v |-> v]

NaN == [fin |-> FALSE, v |-> 0]

isfinite(a) == a.fin

FSub(a, b) == IF a.fin /\ b.fin THEN F(a.v - b.v) ELSE NaN

FHalf(a) == IF a.fin THEN F(a.v \div 2) ELSE NaN

\* np.fmax: the larger of two values, a NaN giving way to the other operand.
fmax(a, b) ==
    IF ~a.fin THEN b
    ELSE IF ~b.fin THEN a
    ELSE IF a.v >= b.v THEN a ELSE b

(***************************************************************************)
(* GradientFieldComputer: np.gradient(f, axis=[0, 1]) of a 2D array.       *)
(***************************************************************************)
At2(f, i, j) == f.flat[i * f.shape[2] + j + 1]

GradientAlong(f0, axis) ==
    With(f0, LAMBDA f :
        LET H == f.shape[1]
            W == f.shape[2]
            n == f.shape[axis + 1]
            P(i, j, d) == IF axis = 0 THEN At2(f, i + d, j) ELSE At2(f, i, j + d)
            G(i, j) ==
                LET p == IF axis = 0 THEN i ELSE j
                IN  IF p = 0 THEN FSub(P(i, j, 1), P(i, j, 0))
                    ELSE IF p = n - 1 THEN FSub(P(i, j, 0), P(i, j, -1))
                    ELSE FHalf(FSub(P(i, j, 1), P(i, j, -1)))
        IN  [shape |-> f.shape,
             flat |-> [k \in 1..(H * W) |-> G((k - 1) \div W, (k - 1) % W)]])

gradient(f) == <<GradientAlong(f, 0), GradientAlong(f, 1)>>

RECURSIVE MinOf(_)
MinOf(s) == IF Len(s) = 1 THEN s[1]
            ELSE IF s[1] < MinOf(Tail(s)) THEN s[1] ELSE MinOf(Tail(s))

\* dask.array.gradient refuses an axis that has a chunk shorter than
\* edge_order + 1 = 2 elements (numpy refuses such an axis likewise).
GradientRefused(f) == MinOf(f.chunks[1]) < 2 \/ MinOf(f.chunks[2]) < 2

(***************************************************************************)
(* FootprintPolygonBuilder.  A polygon is the sequence of its vertices     *)
(* <<x, y>>; err names the exception its construction raised, if any.      *)
(***************************************************************************)
\* a[i, j] of an array of two or more axes (-1: the last row or column): the
\* values along the remaining axes, a single one when the array is 2D.
Cell(a, i, j) ==
    LET H == a.shape[1]
        W == a.shape[2]
        ii == IF i < 0 THEN H + i ELSE i
        jj == IF j < 0 THEN W + j ELSE j
        t == Prod(PyFrom(a.shape, 2))
    IN  [q \in 1..t |-> a.flat[(ii * W + jj) * t + q]]

\* get_corners(x_coords, y_coords)
get_corners(x_coords0, y_coords0) ==
    With(x_coords0, LAMBDA x_coords : With(y_coords0, LAMBDA y_coords :
        [x_s |-> <<Cell(x_coords, 0, 0), Cell(x_coords, 0, -1),
                   Cell(x_coords, -1, -1), Cell(x_coords, -1, 0)>>,
         y_s |-> <<Cell(y_coords, 0, 0), Cell(y_coords, 0, -1),
                   Cell(y_coords, -1, -1), Cell(y_coords, -1, 0)>>]))

RECURSIVE FiniteCorners(_, _, _)
FiniteCorners(x_border, y_border, i) ==
    IF i > Len(x_border) THEN <<>>
    ELSE (IF isfinite(x_border[i][1]) /\ isfinite(y_border[i][1])
          THEN <<<<x_border[i][1].v, y_border[i][1].v>>>> ELSE <<>>)
         \o FiniteCorners(x_border, y_border, i + 1)

\* get_boundary(x_coords, y_coords).  "np.isfinite(a) and np.isfinite(b)" has
\* no truth value when a corner holds more than one element.
get_boundary(x_coords, y_coords) ==
    With(get_corners(x_coords, y_coords), LAMBDA c :
        IF \E i \in 1..4 : Len(c.x_s[i]) > 1 \/ Len(c.y_s[i]) > 1
        THEN [err |-> "ValueError", pts |-> <<>>]
        ELSE [err |-> "", pts |-> FiniteCorners(c.x_s, c.y_s, 1)])

\* shapely's Polygon(shell): no vertex gives the empty polygon, one or two
\* vertices are refused (a linear ring needs at least three).
Polygon(boundary) ==
    IF Len(boundary) \in {1, 2} THEN [err |-> "ValueError", pts |-> <<>>]
    ELSE [err |-> "", pts |-> boundary]

\* get_polygon(x_coords, y_coords)
get_polygon(x_coords, y_coords) ==
    With(get_boundary(x_coords, y_coords), LAMBDA boundary :
        IF boundary.err # "" THEN boundary ELSE Polygon(boundary.pts))

(***************************************************************************)
(* The geometry predicates TileCuller asks of shapely, exact on integer    *)
(* vertices.                                                               *)
(***************************************************************************)
Abs(n) == IF n < 0 THEN -n ELSE n

Nxt(pts, i) == pts[(i % Len(pts)) + 1]

Cross(o, a, b) == (a[1] - o[1]) * (b[2] - o[2]) - (a[2] - o[2]) * (b[1] - o[1])

RECURSIVE Shoelace(_, _)
Shoelace(pts, i) ==
    IF i > Len(pts) THEN 0
    ELSE pts[i][1] * Nxt(pts, i)[2] - Nxt(pts, i)[1] * pts[i][2]
         + Shoelace(pts, i + 1)

\* Twice Polygon.area.
Area2(poly) == Abs(Shoelace(poly.pts, 1))

\* A simple polygon with every turn in the same direction: the polygons GEOS
\* calls valid among those four corners can form.
StrictlyConvex(pts) ==
    /\ Len(pts) >= 3
    /\ \/ \A i \in 1..Len(pts) : Cross(pts[i], Nxt(pts, i), Nxt(pts, i + 1)) > 0
       \/ \A i \in 1..Len(pts) : Cross(pts[i], Nxt(pts, i), Nxt(pts, i + 1)) < 0

\* Some edge of a has all of b strictly on its outer side.
Separated(a, b) ==
    LET s == IF Shoelace(a, 1) > 0 THEN 1 ELSE -1
    IN  \E i \in 1..Len(a) :
            \A k \in 1..Len(b) : s * Cross(a[i], Nxt(a, i), b[k]) < 0

GeosOutcomes == {"True", "False", "TopologicalError"}

\* dst_polygon.intersects(poly).  Nothing intersects the empty polygon; two
\* valid polygons intersect unless an edge separates them; on an invalid one
\* GEOS may answer either way or fail, which geos (the library's choice)
\* decides.
intersects(dst_polygon, poly, geos) ==
    IF Len(dst_polygon.pts) = 0 \/ Len(poly.pts) = 0 THEN "False"
    ELSE IF StrictlyConvex(dst_polygon.pts) /\ StrictlyConvex(poly.pts)
    THEN (IF Separated(dst_polygon.pts, poly.pts)
             \/ Separated(poly.pts, dst_polygon.pts)
          THEN "False" ELSE "True")
    ELSE geos

(***************************************************************************)
(* TileCuller.                                                             *)
(***************************************************************************)
\* np.split(a, n, axis=-1): n pieces of equal extent along the last axis.
SplitLast(a0, n) ==
    With(a0, LAMBDA a :
        LET N == Last(a.shape)
            g == N \div n
            front == PyUpTo(a.shape, -1)
        IN  [p \in 1..n |->
                [shape |-> front \o <<g>>,
                 flat |-> [k \in 1..(Prod(front) * g) |->
                             a.flat[((k - 1) \div g) * N + (p - 1) * g
                                    + ((k - 1) % g) + 1]]]])

RECURSIVE Nonzero(_, _)
Nonzero(mask, i) ==
    IF i > Len(mask) THEN <<>>
    ELSE (IF mask[i] THEN <<i - 1>> ELSE <<>>) \o Nonzero(mask, i + 1)

\* Elements idx of the last axis.
TakeLast(arr0, idx0) ==
    With(arr0, LAMBDA arr : With(idx0, LAMBDA idx :
        LET N == Last(arr.shape)
            n == Len(idx)
            front == PyUpTo(arr.shape, -1)
        IN  [shape |-> front \o <<n>>,
             flat |-> [k \in 1..(Prod(front) * n) |->
                         arr.flat[((k - 1) \div n) * N + idx[((k - 1) % n) + 1] + 1]]]))

\* numpy's own np.take casts a boolean index to the integers 0 and 1.
TakeCast(arr, covers) ==
    TakeLast(arr, [i \in 1..Len(covers) |->
                      (IF covers[i] THEN 1 ELSE 0) % Last(arr.shape)])

\* np.take(arr, covers, axis=-1) of a dask array: dask.array.take indexes
\* arr[..., covers], and dask reads a boolean list as a mask (np.nonzero).
TakeMask(arr, covers) == TakeLast(arr, Nonzero(covers, 1))

\* The decision of the loop body of remove_extra_chunks for one tile.
Covers(dst_polygon, poly, geos) ==
    IF Area2(dst_polygon) = 0 THEN TRUE
    ELSE With(intersects(dst_polygon, poly, geos), LAMBDA cov :
            IF cov = "TopologicalError" THEN TRUE ELSE cov = "True")

\* remove_extra_chunks(arrays, dst_x, dst_y).  dst is <<>> for None, else
\* <<dst_x, dst_y>>; geos is the library's choice on invalid polygons.
remove_extra_chunks(arrays0, dst0, geos) ==
    With(arrays0, LAMBDA arrays : With(dst0, LAMBDA dst :
    LET Fail(e) == [err |-> e, covers |-> <<>>, res |-> <<>>]
        num_chunks == Last(arrays[1].shape)
        ntiles == Last(arrays[2].shape)
    IN
    IF Len(dst) = 0 THEN Fail("TypeError")
    ELSE With(get_polygon(dst[1], dst[2]), LAMBDA dst_polygon :
    IF dst_polygon.err # "" THEN Fail(dst_polygon.err)
    ELSE IF ntiles % num_chunks # 0 THEN Fail("ValueError")
    ELSE
    With(SplitLast(arrays[2], num_chunks), LAMBDA src_x :
    With(SplitLast(arrays[3], num_chunks), LAMBDA src_y :
    With([t \in 1..num_chunks |-> get_polygon(src_x[t], src_y[t])] \o <<>>,
         LAMBDA src_polys :
    IF \E t \in 1..num_chunks : src_polys[t].err # "" THEN Fail("ValueError")
    ELSE
    With([t \in 1..num_chunks |-> Covers(dst_polygon, src_polys[t], geos)] \o <<>>,
         LAMBDA covers :
        [err |-> "", covers |-> covers,
         res |-> [i \in 1..Len(arrays) |-> TakeMask(arrays[i], covers)]])))))))

(***************************************************************************)
(* OverlapReducer.                                                         *)
(***************************************************************************)
\* np.fmax.reduce over a nonempty sequence, left to right.
RECURSIVE FmaxReduce(_)
FmaxReduce(s0) ==
    With(s0, LAMBDA s :
        IF Len(s) = 1 THEN s[1]
        ELSE FmaxReduce(<<fmax(s[1], s[2])>> \o SubSeq(s, 3, Len(s))))

\* np.max would let a NaN win.
MaxReduce(s) ==
    IF \E i \in 1..Len(s) : ~s[i].fin THEN NaN ELSE FmaxReduce(s)

\* np.nanmax of the values one destination pixel has along the tile axis.
NanMaxReduce(s) == FmaxReduce(s)

\* da.nanmax(res, axis=-1); a tile axis of length 0 has no maximum.
nanmax(res0) ==
    With(res0, LAMBDA res :
        LET N == Last(res.shape)
            front == PyUpTo(res.shape, -1)
        IN  IF N = 0 THEN [err |-> "ValueError", shape |-> <<>>, flat |-> <<>>]
            ELSE [err |-> "", shape |-> front,
                  flat |-> [k \in 1..Prod(front) |->
                              NanMaxReduce([t \in 1..N |->
                                              res.flat[(k - 1) * N + t]])]])

NotOne(d) == d # 1

\* ndarray.squeeze(): every axis of length 1 is dropped.
squeeze(shape) == SelectSeq(shape, NotOne)

(***************************************************************************)
(* ParallelResampleDispatcher: parallel_gradient_search up to the lazy     *)
(* result it returns.  status is "lazy" or the exception raised; trace     *)
(* lists the stages entered; shape is the shape of the array returned.     *)
(***************************************************************************)
RankError ==
    "NotImplementedError: Gradient search resampling only supports 2D or 3D arrays."

\* data[np.newaxis, :, :]
NewAxis(data) ==
    [shape |-> <<1>> \o data.shape, flat |-> data.flat,
     chunks |-> <<<<1>>>> \o data.chunks]

\* A rank test that refuses too little: "data.ndim < 2".
RankAtLeastTwo(data) == Len(data.shape) >= 2

\* "data.ndim not in [2, 3]" is false.
SupportedRank(data) == Len(data.shape) \in {2, 3}

PgsFail(e, tr, st, cv, ar) ==
    [status |-> e, trace |-> tr, stacked |-> st, covers |-> cv,
     arrays |-> ar, shape |-> <<>>]

parallel_gradient_search(data0, src0, dst0, geos) ==
    With(data0, LAMBDA data1 : With(src0, LAMBDA src : With(dst0, LAMBDA dst :
    IF ~SupportedRank(data1) THEN PgsFail(RankError, <<>>, <<>>, <<>>, <<>>)
    ELSE IF GradientRefused(src[1]) \/ GradientRefused(src[2])
    THEN PgsFail("ValueError", <<"gradient">>, <<>>, <<>>, <<>>)
    ELSE
    With(IF Len(data1.shape) = 2 THEN NewAxis(data1) ELSE data1, LAMBDA data :
    With(gradient(src[1]), LAMBDA gx : With(gradient(src[2]), LAMBDA gy :
    With(<<reshape_to_stacked_3d(data)>>
            \o reshape_arrays_in_stacked_chunks(
                  <<src[1], src[2], gx[1], gx[2], gy[1], gy[2]>>, src[1].chunks),
         LAMBDA stacked :
    With(remove_extra_chunks(stacked, dst, geos), LAMBDA culled :
    LET tr3 == <<"gradient", "stack", "cull">>
    IN
    IF culled.err # "" THEN PgsFail(culled.err, tr3, stacked, <<>>, <<>>)
    ELSE IF SubSeq(culled.res[1].shape, 2, 3) # SubSeq(culled.res[2].shape, 1, 2)
    THEN PgsFail("ValueError", tr3 \o <<"blockwise">>, stacked, culled.covers,
                 culled.res)
    ELSE IF Last(culled.res[1].shape) = 0
    THEN PgsFail("ValueError", tr3 \o <<"blockwise", "nanmax">>, stacked,
                 culled.covers, culled.res)
    ELSE [status |-> "lazy",
          trace |-> tr3 \o <<"blockwise", "nanmax">>,
          stacked |-> stacked,
          covers |-> culled.covers,
          arrays |-> culled.res,
          shape |-> squeeze(<<data.shape[1]>> \o dst[1].shape)]))))))))

\* The arguments _gradient_resample_data hands the kernel for block z.
KernelArgs(arrays, z) ==
    LET Blk(a) == Take(SplitLast(a, Last(a.shape))[z], 0, Len(a.shape) - 1)
    IN  [src_data |-> Blk(arrays[1]), src_x |-> Blk(arrays[2]),
         src_y |-> Blk(arrays[3]), src_gradient_xl |-> Blk(arrays[4]),
         src_gradient_xp |-> Blk(arrays[5]), src_gradient_yl |-> Blk(arrays[6]),
         src_gradient_yp |-> Blk(arrays[7])]

\* one_step_gradient_search: one value per band and destination pixel, NaN
\* outside the tile's footprint; v is what the kernel found.
one_step_gradient_search(args, dst, v) ==
    LET shape == <<args.src_data.shape[1]>> \o dst[1].shape
    IN  [shape |-> shape, flat |-> [k \in 1..Prod(shape) |-> v]]

(***************************************************************************)
(* Dask arrays handed in by a caller.                                      *)
(***************************************************************************)
Repeat(v, n) == [i \in 1..n |-> v]

\* A dask array of the given shape, its last two axes cut into R x C chunks of
\* h x w elements, holding base, base+1, ... in C order.
ChunkedArray(lead, R, C, h, w, base) ==
    LET shape == lead \o <<R * h, C * w>>
    IN  [shape |-> shape,
         flat |-> [k \in 1..Prod(shape) |-> base + k - 1],
         chunks |-> [i \in 1..Len(lead) |-> <<lead[i]>>]
                       \o <<Repeat(h, R), Repeat(w, C)>>]

RankOneArray(W) ==
    [shape |-> <<W>>, flat |-> [k \in 1..W |-> k - 1], chunks |-> <<<<W>>>>]

(***************************************************************************)
(* The collaborators of compute: geo-definitions and pyproj.  An area      *)
(* (projected) geo-definition offers get_proj_coords and get_proj_vectors; *)
(* a swath (unprojected) one offers get_lonlats only, and asking it for    *)
(* projection coordinates raises AttributeError.  Projection coordinates   *)
(* are 2 apart per pixel, longitudes and latitudes 1 apart.                *)
(***************************************************************************)
Coords(geo, chunks, step) ==
    LET n == geo.rows * geo.cols
    IN  <<[shape |-> <<geo.rows, geo.cols>>, chunks |-> chunks,
           flat |-> [k \in 1..n |->
                       F((geo.x0 * step) \div 2 + step * ((k - 1) % geo.cols))]],
          [shape |-> <<geo.rows, geo.cols>>, chunks |-> chunks,
           flat |-> [k \in 1..n |->
                       F((geo.y0 * step) \div 2 + step * ((k - 1) \div geo.cols))]]>>

get_proj_coords(geo, chunks) == Coords(geo, chunks, 2)

get_lonlats(geo, chunks) == Coords(geo, chunks, 1)

\* Where a transformed grid is not finite (points that fall off the disk).
NonFiniteAt(pattern, i, j) ==
    \/ pattern = "corner_inf" /\ i = 0 /\ j = 0
    \/ pattern = "edge_inf" /\ i = 0
    \/ pattern = "block_inf" /\ i <= 1
    \/ pattern = "all_inf"

\* transform(x, y, src_prj, dst_prj): pyproj maps every point on its own and
\* keeps the chunks; degrees come out doubled, and pattern says where the
\* result is not finite or folds over (row 1 mirrored).
transform(xy0, from_lonlat, pattern) ==
    With(xy0, LAMBDA xy :
    LET W == xy[1].shape[2]
        scale == IF from_lonlat THEN 2 ELSE 1
        Src(k) == IF pattern = "twisted" /\ (k - 1) \div W = 1
                  THEN ((k - 1) \div W) * W + (W - 1 - ((k - 1) % W)) + 1
                  ELSE k
        Map(a, twist) ==
            [shape |-> a.shape, chunks |-> a.chunks,
             flat |-> [k \in 1..Len(a.flat) |->
                         IF NonFiniteAt(pattern, (k - 1) \div W, (k - 1) % W)
                         THEN NaN
                         ELSE F(scale * a.flat[IF twist THEN Src(k) ELSE k].v)]]
    IN  <<Map(xy[1], TRUE), Map(xy[2], FALSE)>>)

(***************************************************************************)
(* Scenes: the geo-definitions a resampler is built on and what pyproj     *)
(* makes of their coordinates.                                             *)
(***************************************************************************)
RECURSIVE DivisorsUpTo(_, _)
DivisorsUpTo(n, d) ==
    IF d = 0 THEN {}
    ELSE (IF n % d = 0 THEN {d} ELSE {}) \cup DivisorsUpTo(n, d - 1)

\* The chunk grids callers use: equal chunks of two or more rows and columns.
Grids == DivisorsUpTo(SrcRows, SrcRows \div 2) \X DivisorsUpTo(SrcCols, SrcCols \div 2)

UniformChunks(grid) ==
    <<Repeat(SrcRows \div grid[1], grid[1]), Repeat(SrcCols \div grid[2], grid[2])>>

SourceGeo(projected) ==
    [projected |-> projected, rows |-> SrcRows, cols |-> SrcCols,
     x0 |-> 0, y0 |-> 0]

TargetAreas ==
    { [rows |-> r, cols |-> c, x0 |-> 0, y0 |-> 0] :
        r \in 1..MaxDst, c \in 1..MaxDst }
    \cup { [rows |-> 2, cols |-> 2, x0 |-> o, y0 |-> o] : o \in {2, 100} }

\* Only a transformed grid has defects: the source's when the source is a
\* swath, the target's when the source is an area.
Scenes ==
    { sc \in [src_projected : BOOLEAN, dst_projected : BOOLEAN,
              target : TargetAreas,
              src_pattern : {"regular", "corner_inf", "edge_inf", "block_inf",
                             "twisted"},
              dst_pattern : {"regular", "corner_inf", "edge_inf", "all_inf"}] :
        /\ sc.src_pattern # "regular" =>
              /\ ~sc.src_projected /\ sc.dst_projected
              /\ sc.dst_pattern = "regular"
              /\ sc.target.rows = sc.target.cols /\ sc.target.x0 # 100
        /\ sc.dst_pattern # "regular" =>
              /\ sc.src_projected /\ sc.dst_projected
              /\ sc.target.rows = sc.target.cols /\ sc.target.x0 = 0 }

TargetGeo(sc) ==
    [projected |-> sc.dst_projected, rows |-> sc.target.rows,
     cols |-> sc.target.cols, x0 |-> sc.target.x0, y0 |-> sc.target.y0]

DstChunks(sc) == <<<<sc.target.rows>>, <<sc.target.cols>>>>

(***************************************************************************)
(* GradientSearchResampler.                                                *)
(***************************************************************************)
ProjectionPairError ==
    "NotImplementedError: Cannot resample lon/lat to lon/lat with gradient search."

\* __init__
NewResampler == [use_input_coords |-> "None", src |-> <<>>, dst |-> <<>>]

\* Lines 68-88 of compute: the coordinates are worked out on the first call
\* and kept on the object.
SetupCoords(slf, sc, datachunks) ==
    IF slf.use_input_coords # "None" THEN [self |-> slf, err |-> ""]
    ELSE
    LET source == SourceGeo(sc.src_projected)
        target == TargetGeo(sc)
        src == IF source.projected THEN get_proj_coords(source, datachunks)
               ELSE get_lonlats(source, datachunks)
        uic == IF source.projected THEN "True" ELSE "False"
    IN  IF ~target.projected /\ uic = "False"
        THEN [self |-> [use_input_coords |-> uic, src |-> src, dst |-> <<>>],
              err |-> ProjectionPairError]
        ELSE
        LET dst == IF target.projected
                   THEN get_proj_coords(target, DstChunks(sc))
                   ELSE get_lonlats(target, DstChunks(sc))
        IN  [self |->
               IF uic = "True"
               THEN [use_input_coords |-> uic, src |-> src,
                     dst |-> transform(dst, ~target.projected, sc.dst_pattern)]
               ELSE [use_input_coords |-> uic,
                     src |-> transform(src, TRUE, sc.src_pattern),
                     dst |-> dst],
             err |-> ""]

(***************************************************************************)
(* Spec: a resampler object and direct callers of                          *)
(* parallel_gradient_search.  A call builds the lazy result (or raises);   *)
(* the task-graph engine then runs one kernel task per surviving tile, in  *)
(* any order, and the reduction once all of them have finished.            *)
(***************************************************************************)
\* The arguments callers pass: the data's rank, bands and chunk grid.
Calls ==
    { c \in [rank : 1..MaxRank, bands : 1..MaxBands, grid : Grids] :
        /\ c.rank # 3 => c.bands = 1
        /\ c.rank \notin {2, 3} => c.grid = <<1, 1>> }

DataFor(c) ==
    IF c.rank = 1 THEN RankOneArray(SrcCols)
    ELSE ChunkedArray(IF c.rank = 2 THEN <<>>
                      ELSE Repeat(1, c.rank - 3) \o <<c.bands>>,
                      c.grid[1], c.grid[2],
                      SrcRows \div c.grid[1], SrcCols \div c.grid[2], 0)

\* What GEOS may answer on invalid polygons: free where a folded grid makes
\* some.
GeosChoices(sc) ==
    IF sc.src_pattern = "twisted" THEN GeosOutcomes ELSE {"True"}

KernelValues == {NaN, F(7)}

Raised(e) == [status |-> e, shape |-> <<>>, flat |-> <<>>]

Init ==
    /\ scene \in Scenes
    /\ self = NewResampler
    /\ pc = "idle"
    /\ call = <<>> /\ pgs = <<>> /\ tasks = <<>> /\ result = <<>>
    /\ st_in = <<>> /\ st_out = <<>>
    /\ rd_in = <<>> /\ rd_out = <<>>

\* GradientSearchResampler.compute(data), handed (y, x) or (bands, y, x) data.
compute(c, geos) ==
    /\ pc = "idle"
    /\ c.rank \in {2, 3}
    /\ \E data \in {DataFor(c)} :
       \E setup \in {SetupCoords(self, scene, PyFrom(data.chunks, -2))} :
           /\ self' = setup.self
           /\ call' = <<[entry |-> "compute", data |-> data,
                         dst |-> setup.self.dst]>>
           /\ IF setup.err # ""
              THEN /\ pgs' = <<>> /\ tasks' = <<>>
                   /\ result' = <<Raised(setup.err)>>
                   /\ pc' = "done"
              ELSE \E g \in {parallel_gradient_search(data, setup.self.src,
                                                       setup.self.dst, geos)} :
                   LET err == IF g.status # "lazy" THEN g.status
                              ELSE IF ~scene.dst_projected THEN "AttributeError"
                              ELSE IF Len(g.shape) # Len(data.shape)
                              THEN "ValueError"
                              ELSE ""
                   IN  /\ pgs' = <<g>>
                       /\ IF err # ""
                          THEN /\ tasks' = <<>>
                               /\ result' = <<Raised(err)>>
                               /\ pc' = "done"
                          ELSE /\ tasks' = [z \in 1..Last(g.arrays[1].shape)
                                              |-> <<>>]
                               /\ result' = <<>>
                               /\ pc' = "graph"
    /\ UNCHANGED <<scene, st_in, st_out, rd_in, rd_out>>

\* parallel_gradient_search(data, src_x, src_y, dst_x, dst_y) called directly
\* with coordinates chunked like the data.
call_parallel_gradient_search(c, geos) ==
    /\ pc = "idle"
    /\ \E data \in {DataFor(c)} :
       \E src \in {transform(get_proj_coords(SourceGeo(TRUE), UniformChunks(c.grid)),
                              FALSE, scene.src_pattern)} :
       \E dst \in {transform(get_proj_coords(TargetGeo(scene), DstChunks(scene)),
                              FALSE, scene.dst_pattern)} :
       \E g \in {parallel_gradient_search(data, src, dst, geos)} :
           /\ call' = <<[entry |-> "parallel_gradient_search", data |-> data,
                         dst |-> dst]>>
           /\ pgs' = <<g>>
           /\ IF g.status # "lazy"
              THEN /\ tasks' = <<>>
                   /\ result' = <<Raised(g.status)>>
                   /\ pc' = "done"
              ELSE /\ tasks' = [z \in 1..Last(g.arrays[1].shape) |-> <<>>]
                   /\ result' = <<>>
                   /\ pc' = "graph"
    /\ UNCHANGED <<scene, self, st_in, st_out, rd_in, rd_out>>

\* _gradient_resample_data on block z of the tile axis: one kernel task.
gradient_resample_data(z, v) ==
    /\ pc = "graph"
    /\ tasks[z] = <<>>
    /\ \E args \in {KernelArgs(pgs[1].arrays, z)} :
           tasks' = [tasks EXCEPT ![z] =
                        <<[args |-> args,
                           image |-> one_step_gradient_search(args, call[1].dst, v)]>>]
    /\ UNCHANGED <<scene, self, pc, call, pgs, result, st_in, st_out, rd_in, rd_out>>

\* da.nanmax(res, axis=-1).squeeze(), once every kernel task has finished.
reduce ==
    /\ pc = "graph"
    /\ \A z \in 1..Len(tasks) : tasks[z] # <<>>
    /\ \E r \in {nanmax(Stack([z \in 1..Len(tasks) |-> tasks[z][1].image], -1))} :
           result' = <<[status |-> "ok", shape |-> squeeze(r.shape),
                        flat |-> r.flat]>>
    /\ pc' = "done"
    /\ UNCHANGED <<scene, self, call, pgs, tasks, st_in, st_out, rd_in, rd_out>>

\* The caller takes the outcome; the resampler object lives on.
Return ==
    /\ pc = "done"
    /\ pc' = "idle"
    /\ call' = <<>> /\ pgs' = <<>> /\ tasks' = <<>> /\ result' = <<>>
    /\ UNCHANGED <<scene, self, st_in, st_out, rd_in, rd_out>>

Next ==
    \/ \E c \in Calls : \E geos \in GeosChoices(scene) : compute(c, geos)
    \/ \E c \in Calls : \E geos \in GeosChoices(scene) :
          call_parallel_gradient_search(c, geos)
    \/ \E z \in 1..Len(tasks) : \E v \in KernelValues : gradient_resample_data(z, v)
    \/ reduce
    \/ Return

Spec == Init /\ [][Next]_vars

(***************************************************************************)
(* SpecStack: the two stackers applied to every small equally chunked      *)
(* array.                                                                  *)
(***************************************************************************)
StackInputs ==
    { [kind |-> k, R |-> R, C |-> C, h |-> h, w |-> w, B |-> B] :
        k \in {"coords", "data"}, R \in 1..MaxChunks, C \in 1..MaxChunks,
        h \in 1..MaxTileExtent, w \in 1..MaxTileExtent, B \in 1..MaxBands }

StackInit ==
    /\ st_in \in StackInputs
    /\ st_out = <<>>
    /\ rd_in = <<>> /\ rd_out = <<>>
    /\ scene = <<>> /\ self = <<>> /\ pc = "off" /\ call = <<>>
    /\ pgs = <<>> /\ tasks = <<>> /\ result = <<>>

StackCoords ==
    /\ st_out = <<>>
    /\ st_in.kind = "coords"
    /\ LET x == ChunkedArray(<<>>, st_in.R, st_in.C, st_in.h, st_in.w, 0)
           g == ChunkedArray(<<>>, st_in.R, st_in.C, st_in.h, st_in.w, 100)
       IN  st_out' = reshape_arrays_in_stacked_chunks(<<x, g>>, x.chunks)
    /\ UNCHANGED <<st_in, rd_in, rd_out, pipeline_vars>>

StackData ==
    /\ st_out = <<>>
    /\ st_in.kind = "data"
    /\ st_out' = <<reshape_to_stacked_3d(
                     ChunkedArray(<<st_in.B>>, st_in.R, st_in.C,
                                  st_in.h, st_in.w, 0))>>
    /\ UNCHANGED <<st_in, rd_in, rd_out, pipeline_vars>>

StackNext == StackCoords \/ StackData

SpecStack == StackInit /\ [][StackNext]_vars

(***************************************************************************)
(* SpecReduce: the closing reduction of parallel_gradient_search applied   *)
(* to every small stack of kernel results, a 1 x 2 destination of one band *)
(* seen by up to MaxReduceTiles tiles.                                     *)
(***************************************************************************)
ReduceShape == <<1, 1, 2>>

ReduceValues == {NaN, F(-2), F(3), F(7)}

\* The stacks of n tile results.
ReduceInputs(n) ==
    [shape : {ReduceShape \o <<n>>},
     flat : [1..(Prod(ReduceShape) * n) -> ReduceValues]]

ReduceInit ==
    /\ \E n \in 1..MaxReduceTiles : rd_in \in ReduceInputs(n)
    /\ rd_out = <<>>
    /\ st_in = <<>> /\ st_out = <<>>
    /\ scene = <<>> /\ self = <<>> /\ pc = "off" /\ call = <<>>
    /\ pgs = <<>> /\ tasks = <<>> /\ result = <<>>

\* da.nanmax(res, axis=-1).squeeze()
nanmax_squeeze ==
    /\ rd_out = <<>>
    /\ \E r \in {nanmax(rd_in)} :
           rd_out' = <<[shape |-> squeeze(r.shape), flat |-> r.flat]>>
    /\ UNCHANGED <<rd_in, st_in, st_out, pipeline_vars>>

ReduceNext == nanmax_squeeze

SpecReduce == ReduceInit /\ [][ReduceNext]_vars

(***************************************************************************)
(* What the checked properties speak of.                                   *)
(***************************************************************************)
\* The tiles marked as covering, in their original order (1-based).
KeptTiles(covers) ==
    LET S == {t \in 1..Len(covers) : covers[t]}
    IN  [k \in 1..Cardinality(S) |->
            CHOOSE t \in S : Cardinality({u \in S : u < t}) = k - 1]

\* Tile t (1-based) of a stacked array.
Tile(a, t) == Take(a, t - 1, Len(a.shape) - 1)

AllNaN(flat) == \A k \in 1..Len(flat) : ~flat[k].fin

\* The running call got as far as culling, with data and coordinates cut
\* into the same number of tiles and a destination to compare with.
CullEntered ==
    /\ pgs # <<>>
    /\ pgs[1].stacked # <<>>
    /\ call[1].dst # <<>>
    /\ Last(pgs[1].stacked[1].shape) = Last(pgs[1].stacked[2].shape)

DstBoundary == get_boundary(call[1].dst[1], call[1].dst[2])

TileBoundary(t) == get_boundary(Tile(pgs[1].stacked[2], t), Tile(pgs[1].stacked[3], t))

\* The array a stacker of SpecStack was handed.
StackOriginal ==
    IF st_in.kind = "coords"
    THEN <<ChunkedArray(<<>>, st_in.R, st_in.C, st_in.h, st_in.w, 0),
           ChunkedArray(<<>>, st_in.R, st_in.C, st_in.h, st_in.w, 100)>>
    ELSE <<ChunkedArray(<<st_in.B>>, st_in.R, st_in.C, st_in.h, st_in.w, 0)>>

\* The tile axis of s put back into the R x C grid of chunks.
Unstack(s, R, C) ==
    LET n == Len(s.shape)
        lead == SubSeq(s.shape, 1, n - 3)
        h == s.shape[n - 2]
        w == s.shape[n - 1]
        H == R * h
        W == C * w
        At(b, y, x) ==
            s.flat[((b * h + (y % h)) * w + (x % w)) * (R * C)
                   + ((x \div w) * R + (y \div h)) + 1]
    IN  [shape |-> lead \o <<H, W>>,
         flat |-> [k \in 1..(Prod(lead) * H * W) |->
                     At((k - 1) \div (H * W), ((k - 1) \div W) % H, (k - 1) % W)]]

(***************************************************************************)
(* The claims.                                                             *)
(***************************************************************************)
\* C1: parallel_gradient_search handed data whose rank is neither 2 nor 3
\* raises the unsupported-rank error before any gradient, stacking, culling
\* or kernel work has happened, and returns no result.
C1_UnsupportedRankRejectedFirst ==
    (pgs # <<>> /\ Len(call[1].data.shape) \notin {2, 3}) =>
        /\ pgs[1].status = RankError
        /\ pgs[1].trace = <<>>
        /\ pgs[1].stacked = <<>> /\ pgs[1].arrays = <<>>
        /\ tasks = <<>>
        /\ pc = "done"
        /\ result = <<Raised(RankError)>>

C1_Witness ==
    /\ pgs # <<>>
    /\ call[1].entry = "parallel_gradient_search"
    /\ Len(call[1].data.shape) = 4
    /\ result = <<Raised(RankError)>>

\* C2: every compute call on a resampler whose source and target are both
\* unprojected ends with the unsupported-projection-pair error, the first
\* call and every later one.
C2_ProjectionPairAlwaysRejected ==
    (pc = "done" /\ call[1].entry = "compute"
       /\ ~scene.src_projected /\ ~scene.dst_projected) =>
        result = <<Raised(ProjectionPairError)>>

\* C3: the array parallel_gradient_search returns for accepted input has the
\* shape (dst_rows, dst_cols) for 2D data and (B, dst_rows, dst_cols) for 3D
\* data of B bands.
C3_ShapeKeepsBands ==
    (pgs # <<>> /\ pgs[1].status = "lazy") =>
        LET expected ==
                (IF Len(call[1].data.shape) = 3
                 THEN <<call[1].data.shape[1]>> ELSE <<>>)
                \o call[1].dst[1].shape
        IN  /\ pgs[1].shape = expected
            /\ (result # <<>> /\ result[1].status = "ok") =>
                   result[1].shape = expected

\* C4: the reduction gives every destination pixel the largest of the finite
\* values the tiles have there (the one finite value when there is one), and
\* NaN exactly when every tile is NaN there.
C4_ReductionKeepsLargestFinite ==
    rd_out # <<>> =>
        LET N == Last(rd_in.shape)
            P == Prod(PyUpTo(rd_in.shape, -1))
            Fin(k) == {rd_in.flat[(k - 1) * N + t].v :
                         t \in {u \in 1..N : rd_in.flat[(k - 1) * N + u].fin}}
        IN  /\ Len(rd_out[1].flat) = P
            /\ \A k \in 1..P :
                  rd_out[1].flat[k] =
                     IF Fin(k) = {} THEN NaN
                     ELSE F(CHOOSE m \in Fin(k) : \A x \in Fin(k) : x <= m)

C4_Witness ==
    /\ rd_out # <<>>
    /\ rd_in.flat = <<NaN, F(3), F(7), NaN, NaN, NaN>>
    /\ rd_out[1].flat = <<F(7), NaN>>

\* C5: when the destination footprint has area zero, remove_extra_chunks
\* marks every one of the N tiles as covering and every returned array keeps
\* all N tiles.
C5_ZeroAreaKeepsEveryTile ==
    (CullEntered /\ DstBoundary.err = ""
       /\ Polygon(DstBoundary.pts).err = ""
       /\ Area2(Polygon(DstBoundary.pts)) = 0) =>
        LET N == Last(pgs[1].stacked[1].shape)
        IN  /\ pgs[1].covers = [t \in 1..N |-> TRUE]
            /\ Len(pgs[1].arrays) = 7
            /\ \A i \in 1..7 : Last(pgs[1].arrays[i].shape) = N

\* C6: culling removes exactly the tiles marked as not covering, the same
\* ones from all seven stacked arrays, keeping the others once each in their
\* order, and the kernel is run on kept tiles only.
C6_CullRemovesExactlyUncovered ==
    (pgs # <<>> /\ pgs[1].arrays # <<>>) =>
        LET kept == KeptTiles(pgs[1].covers)
        IN  /\ Len(pgs[1].arrays) = 7 /\ Len(pgs[1].stacked) = 7
            /\ \A i \in 1..7 :
                  /\ Last(pgs[1].arrays[i].shape) = Len(kept)
                  /\ \A k \in 1..Len(kept) :
                        Tile(pgs[1].arrays[i], k) = Tile(pgs[1].stacked[i], kept[k])
            /\ Len(tasks) \in {0, Len(kept)}
            /\ \A z \in 1..Len(tasks) :
                  tasks[z] # <<>> =>
                     /\ tasks[z][1].args.src_data = Tile(pgs[1].stacked[1], kept[z])
                     /\ tasks[z][1].args.src_x = Tile(pgs[1].stacked[2], kept[z])
                     /\ tasks[z][1].args.src_y = Tile(pgs[1].stacked[3], kept[z])

C6_Witness ==
    /\ pc = "done"
    /\ call[1].entry = "parallel_gradient_search"
    /\ pgs[1].covers = <<TRUE, FALSE, FALSE, FALSE>>
    /\ Len(tasks) = 1
    /\ result[1].status = "ok"

\* C7: culling is fail-open: no geometry failure reaches the caller, and a
\* tile is dropped only when both footprints have three or more finite
\* corners and the test answered that they do not intersect.
C7_CullingFailOpen ==
    CullEntered =>
        /\ pgs[1].covers # <<>>
        /\ \A t \in 1..Len(pgs[1].covers) :
              ~pgs[1].covers[t] =>
                 /\ Len(DstBoundary.pts) >= 3
                 /\ Len(TileBoundary(t).pts) >= 3
                 /\ ~(/\ StrictlyConvex(DstBoundary.pts)
                      /\ StrictlyConvex(TileBoundary(t).pts)
                      /\ ~Separated(DstBoundary.pts, TileBoundary(t).pts)
                      /\ ~Separated(TileBoundary(t).pts, DstBoundary.pts))

\* C8: both stackers turn R x C equal chunks into R*C tiles of the chunk's
\* shape, tile c*R + r holding chunk (r, c) unchanged, and un-stacking the
\* tile axis gives the original array back.
C8_StackersOrderTilesColumnMajor ==
    st_out # <<>> =>
        \A n \in 1..Len(st_out) :
            LET s == st_out[n]
                A == StackOriginal[n]
                lead == PyUpTo(A.shape, -2)
                R == st_in.R
                C == st_in.C
                h == st_in.h
                w == st_in.w
            IN  /\ Len(st_out) = Len(StackOriginal)
                /\ s.shape = lead \o <<h, w, R * C>>
                /\ \A b \in 0..(Prod(lead) - 1), r \in 0..(R - 1), c \in 0..(C - 1),
                      i \in 0..(h - 1), j \in 0..(w - 1) :
                      s.flat[((b * h + i) * w + j) * (R * C) + (c * R + r) + 1]
                         = A.flat[(b * R * h + r * h + i) * (C * w) + c * w + j + 1]
                /\ Unstack(s, R, C).shape = A.shape
                /\ \A k \in 1..Len(A.flat) : Unstack(s, R, C).flat[k] = A.flat[k]

C8_Witness ==
    /\ st_out # <<>>
    /\ st_in.kind = "coords"
    /\ st_in.R = 2 /\ st_in.C = 3 /\ st_in.h = 2 /\ st_in.w = 2
    /\ Last(st_out[1].shape) = 6
    /\ st_out[1].flat[2] = 12

\* C9: when culling leaves no tile, parallel_gradient_search still returns
\* a result (a destination-shaped grid that is NaN everywhere) instead of
\* failing, and a result no tile contributes to is NaN at every pixel.
C9_NoTileGivesNaNGrid ==
    /\ (CullEntered /\ pgs[1].covers # <<>>
          /\ \A t \in 1..Len(pgs[1].covers) : ~pgs[1].covers[t]) =>
           pgs[1].status = "lazy"
    /\ (result # <<>> /\ result[1].status = "ok"
          /\ \A z \in 1..Len(tasks) : AllNaN(tasks[z][1].image.flat)) =>
           AllNaN(result[1].flat)

\* C10: in every compute call (on a pair of geo-definitions compute accepts)
\* the source coordinates handed to parallel_gradient_search are chunked in
\* rows and columns as that call's data is.
C10_CoordsShareDataChunkGrid ==
    (pgs # <<>> /\ call[1].entry = "compute"
       /\ (scene.src_projected \/ scene.dst_projected)) =>
        /\ self.src[1].chunks = PyFrom(call[1].data.chunks, -2)
        /\ self.src[2].chunks = PyFrom(call[1].data.chunks, -2)

====
